---- MODULE Spec2Model ----
(***************************************************************************)
(* ComPNG API (server.py): three FastAPI handlers that write uploaded PNGs *)
(* to a per-request temporary directory, run pngquant on each and answer   *)
(* with JSON statistics (compress-analyze), one image (compress-file) or a *)
(* zip archive plus a statistics header (compress-zip).                    *)
(*                                                                         *)
(* One behaviour of the model is one request: requests share no state.     *)
(* Sizes are byte counts.  percent_reduction is kept in hundredths of a    *)
(* percent (2000 stands for 20.0), which is exactly what round(x, 2) can   *)
(* return.  A file's content is a record naming where its bytes came from. *)
(***************************************************************************)
EXTENDS Integers, Sequences, FiniteSets, TLC

VARIABLES
    endpoint,   \* which handler serves the request
    files,      \* the uploads: sequence of [filename, size]
    tool,       \* what pngquant does when run on the i-th upload
    pc,         \* position in the handler
    index,      \* enumerate() index of the current upload (0-based)
    tmpdir,     \* TRUE while the request's temporary directory exists
    fs,         \* files in the temporary directory: path -> content
    zipf,       \* entries written to compressed.zip, in order
    stats,      \* results (compress-analyze) / stats (compress-zip)
    invoked,    \* indices pngquant was launched for, in order
    response,   \* what the handler hands to the framework
    delivery    \* what the framework made of a FileResponse

vars == <<endpoint, files, tool, pc, index, tmpdir, fs, zipf, stats, invoked,
          response, delivery>>

\* ------------------------------------------------------------------ bounds
\* Longest batch whose items and tool outcomes all vary independently.
MaxLen == 2
\* Longest batch at all; longer than MaxLen, a batch repeats one item.
MaxBatch == 11

\* `if len(files) > 10`
MaxFiles == 10

\* ------------------------------------------------------------------ inputs
PngName == <<"a", ".", "p", "n", "g">>
UpperPngName == <<"B", ".", "P", "N", "G">>
TxtName == <<"c", ".", "t", "x", "t">>
Names == {PngName, UpperPngName, TxtName}

\* Payload lengths: empty; 4000 (its neighbours hit both kinds of rounding
\* tie); 20001 (a one-byte gain is under 0.005 percent).
Sizes == {0, 4000, 20001}

Uploads == [filename : Names, size : Sizes]

\* What the external process can do: fail to start, exit non-zero, exit 0
\* without writing the output file, or exit 0 having written `size` bytes.
ToolKinds == {"launch_error", "nonzero_exit", "no_output", "output"}
NoTool == [kind |-> "launch_error", size |-> 0]

\* str.lower() on the characters that occur in Names
LowerChar(c) ==
    CASE c = "B" -> "b"
      [] c = "P" -> "p"
      [] c = "N" -> "n"
      [] c = "G" -> "g"
      [] OTHER -> c

lower(s) == [i \in 1..Len(s) |-> LowerChar(s[i])]

endswith(s, suffix) ==
    /\ Len(s) >= Len(suffix)
    /\ SubSeq(s, Len(s) - Len(suffix) + 1, Len(s)) = suffix

\* `file.filename.lower().endswith(".png")`
IsPngName(filename) == endswith(lower(filename), <<".", "p", "n", "g">>)

\* Output sizes offered for an n-byte input: smaller, equal and larger.
OutSizes(n) == {n - 1000, n - 5, n - 1, n, n + 1}

ToolOutcomes(f) ==
    IF IsPngName(f.filename) /\ f.size > 0
    THEN {[kind |-> k, size |-> 0] : k \in ToolKinds \ {"output"}}
         \cup {[kind |-> "output", size |-> m] : m \in OutSizes(f.size)}
    ELSE {NoTool}   \* never run for such an item; the value is not read

\* An upload together with what the tool will do on it.
Slots == UNION {{[file |-> f, outcome |-> o] : o \in ToolOutcomes(f)} : f \in Uploads}

VariedBatches == UNION {[1..n -> Slots] : n \in 0..MaxLen}
UniformBatches == {[i \in 1..n |-> s] : n \in (MaxLen + 1)..MaxBatch, s \in Slots}
Batches == VariedBatches \cup UniformBatches

Endpoints == {"analyze", "file", "zip"}

\* ------------------------------------------------------------- arithmetic
\* floor(log2(n / d)) for n, d > 0
RECURSIVE Log2Floor(_, _)
Log2Floor(n, d) ==
    IF n >= d
    THEN IF n >= 2 * d THEN 1 + Log2Floor(n, 2 * d) ELSE 0
    ELSE Log2Floor(2 * n, d) - 1

\* 2^e mod m
RECURSIVE Pow2Mod(_, _)
Pow2Mod(e, m) == IF e = 0 THEN 1 % m ELSE (2 * Pow2Mod(e - 1, m)) % m

\* The double nearest to n/200 (n odd, n/200 not a binary fraction) lies
\* above n/200 iff the 53-bit significand was rounded up.
DoubleIsAbove(n) ==
    LET e == 52 - Log2Floor(n, 200)
        rem == ((n % 200) * Pow2Mod(e, 200)) % 200
    IN  rem > 100

\* round(num * 100 / den, 2) in hundredths, for num >= 0, den > 0.  The
\* quotient is a double; round() rounds that double's exact value, half to
\* even.  Off a tie the double and the fraction round alike; on a tie
\* x = (2q+1)/200, x is either a binary fraction (25 divides 2q+1: half to
\* even decides) or the double lies on one side of it.
RoundAbs(num, den) ==
    LET scaled == num * 10000
        q == scaled \div den
        r == scaled % den
    IN  IF 2 * r < den THEN q
        ELSE IF 2 * r > den THEN q + 1
        ELSE IF (2 * q + 1) % 25 = 0 THEN (IF q % 2 = 0 THEN q ELSE q + 1)
        ELSE IF DoubleIsAbove(2 * q + 1) THEN q + 1 ELSE q

\* `round((orig_size - final_size) * 100 / orig_size, 2)`, in hundredths
Round2(num, den) == IF num < 0 THEN 0 - RoundAbs(0 - num, den) ELSE RoundAbs(num, den)

\* ------------------------------------------------------------ filesystem
NoFiles == [p \in {} |-> 0]

\* os.path.join(tmpdir, f"{index}_input.png") and its siblings; tmpdir is
\* the same prefix of every path of a request and is left out.
IndexedInputPath(i) == ToString(i) \o "_input.png"
IndexedOutputPath(i) == ToString(i) \o "_compressed.png"
SingleInputPath == "input.png"
SingleOutputPath == "compressed.png"
ZipPath == "compressed.zip"

\* Contents: the i-th upload's bytes, pngquant's output for it, what an
\* interrupted write left behind, or the archive being built.
UploadBytes(i) == [kind |-> "upload", item |-> i, size |-> files[i + 1].size]
QuantBytes(i) == [kind |-> "pngquant", item |-> i, size |-> tool[i + 1].size]
PartialBytes(i) == [kind |-> "partial", item |-> i, size |-> 0]
ArchiveBytes == [kind |-> "zip", item |-> 0 - 1, size |-> 0]

exists(fsys, path) == path \in DOMAIN fsys
getsize(fsys, path) == fsys[path].size

\* open(input_path, "wb") / f.write(raw_bytes) can fail (disk full, ...).
WriteOutcomes == {"ok", "open_fails", "write_fails"}

AfterWrite(fsys, path, i, w) ==
    CASE w = "ok" -> (path :> UploadBytes(i)) @@ fsys
      [] w = "write_fails" -> (path :> PartialBytes(i)) @@ fsys
      [] OTHER -> fsys

\* ------------------------------------------------------------- pngquant
\* subprocess.check_output raises when the program cannot be started and
\* when it exits non-zero.
CheckOutputRaises(outcome) == outcome.kind \in {"launch_error", "nonzero_exit"}

\* The process writes output_file only in the "output" outcome.
AfterTool(fsys, output_file, i) ==
    IF tool[i + 1].kind = "output" THEN (output_file :> QuantBytes(i)) @@ fsys ELSE fsys

\* Mutant: `except subprocess.CalledProcessError` instead of
\* `except Exception`; a failure to start the program leaves the function.
run_pngquant_narrow_except(fsys, output_file, i) ==
    IF CheckOutputRaises(tool[i + 1])
    THEN [raised |-> tool[i + 1].kind = "launch_error", value |-> FALSE]
    ELSE [raised |-> FALSE, value |-> exists(AfterTool(fsys, output_file, i), output_file)]

\* run_pngquant_safe: `raised` tells whether an exception leaves the
\* function, `value` is what it returns otherwise.
run_pngquant_safe(fsys, output_file, i) ==
    IF CheckOutputRaises(tool[i + 1])
    THEN [raised |-> FALSE, value |-> FALSE]                \* except Exception
    ELSE [raised |-> FALSE, value |-> exists(AfterTool(fsys, output_file, i), output_file)]

\* ----------------------------------------------------- per-item decision
\* `final_path = output_path if compressed else input_path`
final_path(compressed, input_path, output_path) ==
    IF compressed THEN output_path ELSE input_path

\* Mutant: the reduction taken against the final size.
reduction_against_final(orig_size, final_size, compressed) ==
    IF compressed THEN Round2(orig_size - final_size, final_size) ELSE 0

\* `reduction = round(...) if compressed else 0.0`
reduction(orig_size, final_size, compressed) ==
    IF compressed THEN Round2(orig_size - final_size, orig_size) ELSE 0

\* The dict appended to results / stats.
StatsEntry(file, fsys, input_path, output_path, compressed) ==
    LET orig_size == getsize(fsys, input_path)
        final_size == getsize(fsys, final_path(compressed, input_path, output_path))
    IN  [filename |-> file.filename,
         original_size |-> orig_size,
         final_size |-> final_size,
         percent_reduction |-> reduction(orig_size, final_size, compressed),
         used_compressed |-> compressed]

\* ------------------------------------------------------------ responses
NoResponse ==
    [kind |-> "none", status |-> 0, detail |-> "", path |-> "",
     media_type |-> "", filename |-> <<>>, stats |-> <<>>]

HTTPException(status_code, detail) ==
    [NoResponse EXCEPT !.kind = "error", !.status = status_code, !.detail = detail]

\* An exception that is no HTTPException: the framework answers 500.
\* `exc` names the call that raised.
ServerError(exc) ==
    [NoResponse EXCEPT !.kind = "error", !.status = 500, !.detail = exc]

JSONResponse(results) ==
    [NoResponse EXCEPT !.kind = "json", !.status = 200, !.stats = results]

\* FileResponse keeps the path; the file is opened when the response is sent.
FileResponse(path, media_type, filename, headerStats) ==
    [kind |-> "file", status |-> 200, detail |-> "", path |-> path,
     media_type |-> media_type, filename |-> filename, stats |-> headerStats]

\* ------------------------------------------------------------ validation
\* Mutant: the upper limit is not enforced.
BatchCheck_no_limit(batch) == IF Len(batch) = 0 THEN "empty" ELSE "ok"

\* `if not files` / `if len(files) > 10`
BatchCheck(batch) ==
    IF Len(batch) = 0 THEN "empty"
    ELSE IF Len(batch) > MaxFiles THEN "too_many"
    ELSE "ok"

BatchDetail(verdict) ==
    IF verdict = "empty" THEN "At least one PNG required" ELSE "Max 10 files allowed"

\* Mutant: the empty-payload check is missing.
AnalyzeItemCheck_no_empty(file) == IF ~IsPngName(file.filename) THEN "not_png" ELSE "ok"

\* compress_analyze, per item: extension, then read and `if not raw_bytes`
AnalyzeItemCheck(file) ==
    IF ~IsPngName(file.filename) THEN "not_png"
    ELSE IF file.size = 0 THEN "empty"
    ELSE "ok"

\* Mutant: empty payloads are not skipped.
ZipItemCheck_no_skip(file) == IF ~IsPngName(file.filename) THEN "not_png" ELSE "ok"

\* compress_zip, per item: extension, then `continue` on an empty payload
ZipItemCheck(file) ==
    IF ~IsPngName(file.filename) THEN "not_png"
    ELSE IF file.size = 0 THEN "skip"
    ELSE "ok"

\* compress_file: `if not raw_bytes` inside the try block
FilePayloadCheck(file) == IF file.size = 0 THEN "empty" ELSE "ok"

\* Mutant: the archive always receives the uploaded file.
ZipEntry_input(file, fsys, path) ==
    [arcname |-> file.filename, bytes |-> fsys[IndexedInputPath(index)]]

\* `zipf.write(final_path, arcname=file.filename)`
ZipEntry(file, fsys, path) == [arcname |-> file.filename, bytes |-> fsys[path]]

\* ----------------------------------------------------------------- state
Init ==
    \E e \in Endpoints, b \in Batches :
        /\ e = "file" => Len(b) = 1        \* `file: UploadFile = File(...)`
        /\ endpoint = e
        /\ files = [i \in 1..Len(b) |-> b[i].file]
        /\ tool = [i \in 1..Len(b) |-> b[i].outcome]
        /\ pc = "request"
        /\ index = 0
        /\ tmpdir = FALSE
        /\ fs = NoFiles
        /\ zipf = <<>>
        /\ stats = <<>>
        /\ invoked = <<>>
        /\ response = NoResponse
        /\ delivery = "none"

\* The handler leaves its try / with block, by an exception or a return.
LeaveWith(result) ==
    /\ response' = result
    /\ pc' = "unwind"

\* The current upload is written to input_path (lines 114-115 and alike).
WriteInput(input_path) ==
    \E w \in WriteOutcomes :
        /\ fs' = AfterWrite(fs, input_path, index, w)
        /\ IF w = "ok"
           THEN /\ pc' = "compress"
                /\ UNCHANGED response
           ELSE LeaveWith(ServerError("open/write"))

\* ------------------------------------------------------ compress_analyze
AnalyzeValidate ==
    /\ endpoint = "analyze" /\ pc = "request"
    /\ LET verdict == BatchCheck(files) IN
       IF verdict # "ok"
       THEN /\ response' = HTTPException(400, BatchDetail(verdict))
            /\ pc' = "done"
            /\ UNCHANGED tmpdir
       ELSE /\ tmpdir' = TRUE               \* with tempfile.TemporaryDirectory()
            /\ pc' = "input"
            /\ UNCHANGED response
    /\ UNCHANGED <<endpoint, files, tool, index, fs, zipf, stats, invoked, delivery>>

AnalyzeItemInput ==
    /\ endpoint = "analyze" /\ pc = "input" /\ index < Len(files)
    /\ LET file == files[index + 1]
           verdict == AnalyzeItemCheck(file) IN
       CASE verdict = "not_png" ->
              /\ LeaveWith(HTTPException(400, "Only PNG allowed"))
              /\ UNCHANGED fs
         [] verdict = "empty" ->
              /\ LeaveWith(HTTPException(400, "Empty PNG file"))
              /\ UNCHANGED fs
         [] OTHER -> WriteInput(IndexedInputPath(index))
    /\ UNCHANGED <<endpoint, files, tool, index, tmpdir, zipf, stats, invoked, delivery>>

AnalyzeItemCompress ==
    /\ endpoint = "analyze" /\ pc = "compress"
    /\ LET input_path == IndexedInputPath(index)
           output_path == IndexedOutputPath(index)
           run == run_pngquant_safe(fs, output_path, index)
           after == AfterTool(fs, output_path, index) IN
       /\ invoked' = Append(invoked, index)
       /\ fs' = after
       /\ IF run.raised
          THEN /\ LeaveWith(ServerError("run_pngquant_safe"))
               /\ UNCHANGED <<stats, index>>
          ELSE /\ stats' = Append(stats,
                       StatsEntry(files[index + 1], after, input_path, output_path, run.value))
               /\ index' = index + 1
               /\ pc' = "input"
               /\ UNCHANGED response
    /\ UNCHANGED <<endpoint, files, tool, tmpdir, zipf, delivery>>

\* Leaving the with block removes the directory; after a normal exit the
\* handler returns JSONResponse(results).
AnalyzeExit ==
    /\ endpoint = "analyze"
    /\ pc = "unwind" \/ (pc = "input" /\ index = Len(files))
    /\ tmpdir' = FALSE
    /\ fs' = NoFiles
    /\ response' = IF pc = "input" THEN JSONResponse(stats) ELSE response
    /\ pc' = "done"
    /\ UNCHANGED <<endpoint, files, tool, index, zipf, stats, invoked, delivery>>

\* --------------------------------------------------------- compress_file
FileValidate ==
    /\ endpoint = "file" /\ pc = "request"
    /\ IF ~IsPngName(files[1].filename)
       THEN /\ response' = HTTPException(400, "Only PNG allowed")
            /\ pc' = "done"
            /\ UNCHANGED tmpdir
       ELSE /\ tmpdir' = TRUE               \* tempfile.mkdtemp()
            /\ pc' = "input"
            /\ UNCHANGED response
    /\ UNCHANGED <<endpoint, files, tool, index, fs, zipf, stats, invoked, delivery>>

FileInput ==
    /\ endpoint = "file" /\ pc = "input"
    /\ IF FilePayloadCheck(files[1]) = "empty"
       THEN /\ LeaveWith(HTTPException(400, "Empty PNG file"))
            /\ UNCHANGED fs
       ELSE WriteInput(SingleInputPath)
    /\ UNCHANGED <<endpoint, files, tool, index, tmpdir, zipf, stats, invoked, delivery>>

FileCompress ==
    /\ endpoint = "file" /\ pc = "compress"
    /\ LET run == run_pngquant_safe(fs, SingleOutputPath, index) IN
       /\ invoked' = Append(invoked, index)
       /\ fs' = AfterTool(fs, SingleOutputPath, index)
       /\ IF run.raised
          THEN LeaveWith(ServerError("run_pngquant_safe"))
          ELSE LeaveWith(FileResponse(final_path(run.value, SingleInputPath, SingleOutputPath),
                                  "image/png", files[1].filename, <<>>))
    /\ UNCHANGED <<endpoint, files, tool, index, tmpdir, zipf, stats, delivery>>

\* finally: shutil.rmtree(tmpdir, ignore_errors=True)
FileFinally ==
    /\ endpoint = "file" /\ pc = "unwind"
    /\ tmpdir' = FALSE
    /\ fs' = NoFiles
    /\ pc' = "done"
    /\ UNCHANGED <<endpoint, files, tool, index, zipf, stats, invoked, response, delivery>>

\* ---------------------------------------------------------- compress_zip
ZipValidate ==
    /\ endpoint = "zip" /\ pc = "request"
    /\ LET verdict == BatchCheck(files) IN
       IF verdict # "ok"
       THEN /\ response' = HTTPException(400, BatchDetail(verdict))
            /\ pc' = "done"
            /\ UNCHANGED <<tmpdir, fs>>
       ELSE /\ tmpdir' = TRUE                        \* tempfile.mkdtemp()
            /\ fs' = (ZipPath :> ArchiveBytes)       \* zipfile.ZipFile(zip_path, "w")
            /\ pc' = "input"
            /\ UNCHANGED response
    /\ UNCHANGED <<endpoint, files, tool, index, zipf, stats, invoked, delivery>>

ZipItemInput ==
    /\ endpoint = "zip" /\ pc = "input" /\ index < Len(files)
    /\ LET file == files[index + 1]
           verdict == ZipItemCheck(file) IN
       CASE verdict = "not_png" ->
              /\ LeaveWith(HTTPException(400, "Only PNG allowed"))
              /\ UNCHANGED <<fs, index>>
         [] verdict = "skip" ->                      \* continue
              /\ index' = index + 1
              /\ UNCHANGED <<fs, pc, response>>
         [] OTHER ->
              /\ WriteInput(IndexedInputPath(index))
              /\ UNCHANGED index
    /\ UNCHANGED <<endpoint, files, tool, tmpdir, zipf, stats, invoked, delivery>>

ZipItemCompress ==
    /\ endpoint = "zip" /\ pc = "compress"
    /\ LET input_path == IndexedInputPath(index)
           output_path == IndexedOutputPath(index)
           run == run_pngquant_safe(fs, output_path, index)
           after == AfterTool(fs, output_path, index) IN
       /\ invoked' = Append(invoked, index)
       /\ fs' = after
       /\ IF run.raised
          THEN /\ LeaveWith(ServerError("run_pngquant_safe"))
               /\ UNCHANGED <<zipf, stats, index>>
          ELSE \E written \in BOOLEAN :              \* zipf.write can fail
               IF written
               THEN /\ zipf' = Append(zipf, ZipEntry(files[index + 1], after,
                               final_path(run.value, input_path, output_path)))
                    /\ stats' = Append(stats,
                           StatsEntry(files[index + 1], after, input_path, output_path, run.value))
                    /\ index' = index + 1
                    /\ pc' = "input"
                    /\ UNCHANGED response
               ELSE /\ LeaveWith(ServerError("zipf.write"))
                    /\ UNCHANGED <<zipf, stats, index>>
    /\ UNCHANGED <<endpoint, files, tool, tmpdir, delivery>>

\* The loop is over: the archive is closed and the handler returns.
ZipReturn ==
    /\ endpoint = "zip" /\ pc = "input" /\ index = Len(files)
    /\ LeaveWith(FileResponse(ZipPath, "application/zip", "compressed.zip", stats))
    /\ UNCHANGED <<endpoint, files, tool, index, tmpdir, fs, zipf, stats, invoked, delivery>>

\* Mutant: no finally block; the directory is removed only after a return.
ZipFinally_leak ==
    /\ endpoint = "zip" /\ pc = "unwind"
    /\ tmpdir' = (response.kind # "file")
    /\ fs' = IF response.kind = "file" THEN NoFiles ELSE fs
    /\ pc' = "done"
    /\ UNCHANGED <<endpoint, files, tool, index, zipf, stats, invoked, response, delivery>>

\* finally: shutil.rmtree(tmpdir, ignore_errors=True)
ZipFinally ==
    /\ endpoint = "zip" /\ pc = "unwind"
    /\ tmpdir' = FALSE
    /\ fs' = NoFiles
    /\ pc' = "done"
    /\ UNCHANGED <<endpoint, files, tool, index, zipf, stats, invoked, response, delivery>>

\* ------------------------------------------------------------- framework
\* The handler has finished; the framework sends what it returned.  A
\* FileResponse opens its path only now; a path that is gone ends the
\* request in an error instead of the body.
SendResponse ==
    /\ pc = "done"
    /\ pc' = "sent"
    /\ delivery' = IF response.kind = "file"
                   THEN (IF exists(fs, response.path) THEN "body_sent" ELSE "file_missing")
                   ELSE "sent"
    /\ UNCHANGED <<endpoint, files, tool, index, tmpdir, fs, zipf, stats, invoked, response>>

Next ==
    \/ AnalyzeValidate
    \/ AnalyzeItemInput
    \/ AnalyzeItemCompress
    \/ AnalyzeExit
    \/ FileValidate
    \/ FileInput
    \/ FileCompress
    \/ FileFinally
    \/ ZipValidate
    \/ ZipItemInput
    \/ ZipItemCompress
    \/ ZipReturn
    \/ ZipFinally
    \/ SendResponse

Spec == Init /\ [][Next]_vars

\* ================================================================= claims
\* The k-th statistics entry belongs to the upload pngquant was launched
\* for k-th: both sequences grow in the same step.
StatItem(k) == invoked[k]
ToolSucceeded(i) == tool[i + 1].kind = "output"
HandlerDone == pc \in {"done", "sent"}
Succeeded == HandlerDone /\ response.kind \in {"json", "file"}
Rejected == HandlerDone /\ response.kind = "error" /\ response.status = 400

\* C1: in compress-analyze and compress-zip, an item whose pngquant run
\* succeeds with an output at least as large as the original is reported
\* with used_compressed = false, final_size = original_size and
\* percent_reduction = 0.0, and the original bytes are the ones selected.
C1_NoGainKeepsOriginal ==
    \A k \in 1..Len(stats) :
        LET i == StatItem(k) IN
        (ToolSucceeded(i) /\ tool[i + 1].size >= files[i + 1].size) =>
            /\ stats[k].used_compressed = FALSE
            /\ stats[k].final_size = stats[k].original_size
            /\ stats[k].percent_reduction = 0
            /\ endpoint = "zip" => zipf[k].bytes = UploadBytes(i)

\* percent_reduction p (hundredths) is (original - final) * 100 / original
\* rounded to two decimals: p lies within half a hundredth of the quotient.
IsRoundedReduction(p, orig_size, final_size) ==
    LET d == p * orig_size - (orig_size - final_size) * 10000
    IN  2 * (IF d < 0 THEN 0 - d ELSE d) <= orig_size

StrictGain(k) ==
    LET i == StatItem(k) IN
    ToolSucceeded(i) /\ tool[i + 1].size < files[i + 1].size /\ files[i + 1].size > 0

\* C2 as stated: an item whose pngquant output is strictly smaller has
\* used_compressed = true, final_size < original_size, percent_reduction
\* equal to the rounded quotient, and percent_reduction > 0.
C2_StrictGainPositive ==
    \A k \in 1..Len(stats) :
        StrictGain(k) =>
            /\ stats[k].used_compressed
            /\ stats[k].final_size < stats[k].original_size
            /\ IsRoundedReduction(stats[k].percent_reduction,
                                  stats[k].original_size, stats[k].final_size)
            /\ stats[k].percent_reduction > 0

\* C2 amended: an item whose pngquant output is strictly smaller has
\* used_compressed = true, final_size < original_size equal to the sizes of
\* the upload and of the output, percent_reduction equal to the rounded
\* quotient and >= 0; it is > 0 exactly when the gain is at least 0.005
\* percent of the original size.
C2_StrictGainRounded ==
    \A k \in 1..Len(stats) :
        StrictGain(k) =>
            LET i == StatItem(k) IN
            /\ stats[k].used_compressed
            /\ stats[k].original_size = files[i + 1].size
            /\ stats[k].final_size = tool[i + 1].size
            /\ stats[k].final_size < stats[k].original_size
            /\ IsRoundedReduction(stats[k].percent_reduction,
                                  stats[k].original_size, stats[k].final_size)
            /\ stats[k].percent_reduction >= 0
            /\ stats[k].percent_reduction > 0
                 <=> (stats[k].original_size - stats[k].final_size) * 20000
                        >= stats[k].original_size

\* A delivered-to-be statistics entry of a strict gain that rounds to 0.0,
\* beside one that rounds to a positive value.
C2_Witness ==
    /\ Succeeded
    /\ \E k \in 1..Len(stats) : StrictGain(k) /\ stats[k].percent_reduction = 0
    /\ \E k \in 1..Len(stats) : StrictGain(k) /\ stats[k].percent_reduction > 0

\* The entry of an item that fell back to its uploaded bytes.
FallbackEntry(i) ==
    [filename |-> files[i + 1].filename,
     original_size |-> files[i + 1].size,
     final_size |-> files[i + 1].size,
     percent_reduction |-> 0,
     used_compressed |-> FALSE]

\* C3: when pngquant fails for an item (cannot be started, exits non-zero,
\* or leaves no output file) nothing is raised: in compress-analyze and
\* compress-zip the item gets the fallback statistics (and, in the archive,
\* its uploaded bytes) and the loop goes on to the next item; compress-file
\* returns the uploaded file.  Only a failing zipf.write ends the request.
C3_ToolFailureAbsorbed ==
    [][(pc = "compress" /\ ~ToolSucceeded(index)) =>
          \/ /\ endpoint = "file"
             /\ response' = FileResponse(SingleInputPath, "image/png", files[1].filename, <<>>)
             /\ fs'[SingleInputPath] = UploadBytes(0)
          \/ /\ endpoint \in {"analyze", "zip"}
             /\ response' = NoResponse
             /\ pc' = "input"
             /\ index' = index + 1
             /\ stats' = Append(stats, FallbackEntry(index))
             /\ endpoint = "zip" =>
                  zipf' = Append(zipf, [arcname |-> files[index + 1].filename,
                                        bytes |-> UploadBytes(index)])
          \/ /\ endpoint = "zip"
             /\ response' = ServerError("zipf.write")
      ]_vars

\* A launch failure on the first item, absorbed, and the second item
\* processed after it.
C3_Witness ==
    /\ Len(stats) = 2
    /\ tool[1].kind = "launch_error"
    /\ stats[1] = FallbackEntry(0)
    /\ Succeeded

\* C4: a request that ends in a 400 rejection (empty batch, too many items,
\* a non-.png name, an empty payload) has not launched pngquant at all.
C4_NoToolBeforeRejection == Rejected => invoked = <<>>

HasEmpty == \E i \in 1..Len(files) : files[i].size = 0

\* The 0-based indices of the uploads with a non-empty payload, in order.
NonEmptyItems ==
    LET NonEmpty(i) == files[i + 1].size > 0
    IN  SelectSeq([i \in 1..Len(files) |-> i - 1], NonEmpty)

IOFailure ==
    /\ response.kind = "error" /\ response.status = 500
    /\ response.detail \in {"open/write", "zipf.write"}

C7_BatchLimits ==
    (endpoint \in {"analyze", "zip"} /\ pc # "request"
        /\ (Len(files) = 0 \/ Len(files) > MaxFiles)) =>
        /\ response = HTTPException(400, IF Len(files) = 0
                                         THEN "At least one PNG required"
                                         ELSE "Max 10 files allowed")
        /\ HandlerDone
        /\ invoked = <<>>
        /\ ~tmpdir
        /\ DOMAIN fs = {}
        /\ index = 0 /\ stats = <<>> /\ zipf = <<>>

\* An 11-item batch of valid files has been answered.
C7_Witness ==
    /\ endpoint = "zip" /\ pc = "sent"
    /\ Len(files) > MaxFiles
    /\ IsPngName(files[1].filename) /\ files[1].size > 0
    /\ response.status = 400

\* C8: the temporary directory exists whenever an item is being read,
\* written or compressed, files exist only inside it, and once the handler
\* has finished -- by a response, a rejection or an unexpected error -- the
\* directory and everything in it is gone.
C8_WorkspaceScoped ==
    /\ pc \in {"input", "compress"} => tmpdir
    /\ DOMAIN fs # {} => tmpdir
    /\ HandlerDone => (~tmpdir /\ DOMAIN fs = {})

\* The handler has finished after zipf.write failed on the second item.
C8_Witness ==
    /\ pc = "done"
    /\ response.status = 500 /\ response.detail = "zipf.write"
    /\ invoked = <<0, 1>>
    /\ ~tmpdir

\* The bytes the handlers select for item i: pngquant's output whenever the
\* run produced one, the upload otherwise.
SelectedBytes(i) == IF ToolSucceeded(i) THEN QuantBytes(i) ELSE UploadBytes(i)

AllValid == \A i \in 1..Len(files) : IsPngName(files[i].filename) /\ files[i].size > 0

C10_PayloadFileExistsWhenSent ==
    (pc = "sent" /\ response.kind = "file") => delivery = "body_sent"

====
